---- MODULE Spec2Model ----
(***************************************************************************)
(* Model of tools/find_unresolved_json.py: the recursive visit() over a    *)
(* parsed JSON document, the module-level scan loop over the enumerated    *)
(* files, and the final report.                                            *)
(***************************************************************************)
EXTENDS Integers, Sequences, FiniteSets, TLC

\* ------------------------------------------------------------------------
\* Bounds
\* ------------------------------------------------------------------------

\* Largest number of files BASE_DIR.rglob('*.json') yields in one run.
MaxFiles == 2

\* ------------------------------------------------------------------------
\* JSON values as json.load returns them.  Every node is a record of the
\* same shape; kind selects the fields that are meaningful.
\*   obj : items is a sequence of <<key, child>> with distinct keys, in
\*         insertion (parse) order
\*   list: items is a sequence of children
\*   str / num / bool / null: scalar leaves
\* ------------------------------------------------------------------------

Obj(items) == [kind |-> "obj", sval |-> "", ival |-> 0, bval |-> FALSE, items |-> items]

Lst(items) == [kind |-> "list", sval |-> "", ival |-> 0, bval |-> FALSE, items |-> items]

Str(s) == [kind |-> "str", sval |-> s, ival |-> 0, bval |-> FALSE, items |-> <<>>]

Num(n) == [kind |-> "num", sval |-> "", ival |-> n, bval |-> FALSE, items |-> <<>>]

Bool(b) == [kind |-> "bool", sval |-> "", ival |-> 0, bval |-> b, items |-> <<>>]

Null == [kind |-> "null", sval |-> "", ival |-> 0, bval |-> FALSE, items |-> <<>>]

\* isinstance(node, dict) / isinstance(node, list)
IsDict(node) == node.kind = "obj"

IsList(node) == node.kind = "list"

\* ------------------------------------------------------------------------
\* Python's str() and '/'.join()
\* ------------------------------------------------------------------------

Digit(d) ==
    CASE d = 0 -> "0" [] d = 1 -> "1" [] d = 2 -> "2" [] d = 3 -> "3"
      [] d = 4 -> "4" [] d = 5 -> "5" [] d = 6 -> "6" [] d = 7 -> "7"
      [] d = 8 -> "8" [] d = 9 -> "9"

RECURSIVE IntToStr(_)
\* str(int): decimal digits, a leading '-' for negatives
IntToStr(n) ==
    IF n < 0 THEN "-" \o IntToStr(0 - n)
    ELSE IF n < 10 THEN Digit(n)
    ELSE IntToStr(n \div 10) \o Digit(n % 10)

RECURSIVE Join(_, _)
\* sep.join(parts)
Join(parts, sep) ==
    IF Len(parts) = 0 THEN ""
    ELSE IF Len(parts) = 1 THEN parts[1]
    ELSE parts[1] \o sep \o Join(Tail(parts), sep)

RECURSIVE Repr(_)
\* repr(value) of a parsed JSON value (strings here hold no quote or escape)
Repr(node) ==
    CASE node.kind = "str" -> "'" \o node.sval \o "'"
      [] node.kind = "num" -> IntToStr(node.ival)
      [] node.kind = "bool" -> (IF node.bval THEN "True" ELSE "False")
      [] node.kind = "null" -> "None"
      [] node.kind = "list" ->
            "[" \o Join([i \in 1..Len(node.items) |-> Repr(node.items[i])], ", ") \o "]"
      [] node.kind = "obj" ->
            "{" \o Join([i \in 1..Len(node.items) |->
                            "'" \o node.items[i][1] \o "': " \o Repr(node.items[i][2])],
                        ", ") \o "}"

\* str(value): a str is itself, everything else prints as its repr
PyStr(node) == IF node.kind = "str" THEN node.sval ELSE Repr(node)

\* ------------------------------------------------------------------------
\* dict operations used by visit
\* ------------------------------------------------------------------------

\* 'Name' in node_dict
HasKey(node, key) == \E i \in 1..Len(node.items) : node.items[i][1] = key

\* node_dict['Name'] for a present key
Lookup(node, key) ==
    node.items[CHOOSE i \in 1..Len(node.items) : node.items[i][1] = key][2]

\* node_dict.get('Name') is not None: the key is present and its value is
\* not JSON null (a null value and a missing key both give None)
GetIsNotNone(node, key) == HasKey(node, key) /\ Lookup(node, key).kind # "null"

\* an ancestry test that looks at the immediate parent key only
TrailHasAnchorParentOnly(trail) ==
    /\ Len(trail) > 0
    /\ trail[Len(trail)] \in {"Columns", "Parameters"}

\* an ancestry test that ignores the case of the first letter
TrailHasAnchorAnyCase(trail) ==
    \E i \in 1..Len(trail) : trail[i] \in {"Columns", "Parameters", "columns", "parameters"}

\* any(segment == 'Columns' ...) or any(segment == 'Parameters' ...)
TrailHasAnchor(trail) ==
    \/ \E i \in 1..Len(trail) : trail[i] = "Columns"
    \/ \E i \in 1..Len(trail) : trail[i] = "Parameters"

\* a match condition that asks for the Name key but not for it to be the
\* only key
MatchesAtLeastName(node, trail) ==
    /\ IsDict(node)
    /\ GetIsNotNone(node, "Name")
    /\ TrailHasAnchor(trail)

\* the condition of lines 18-19 under which visit appends to results
Matches(node, trail) ==
    /\ IsDict(node)
    /\ GetIsNotNone(node, "Name")
    /\ Len(node.items) = 1
    /\ TrailHasAnchor(trail)

\* a joined trail that descends into the Name key before the value
JoinedTrailWithKey(node, trail) ==
    Join(trail \o <<"Name", PyStr(Lookup(node, "Name"))>>, "/")

\* '/'.join(trail + [str(name)])
JoinedTrail(node, trail) == Join(trail \o <<PyStr(Lookup(node, "Name"))>>, "/")

\* list indices counted from one: enumerate(node_list, 1)
ChildSegmentOneBased(node, i) ==
    IF IsDict(node) THEN node.items[i][1] ELSE IntToStr(i)

\* the segment visit appends for its i-th child: str(key) or str(idx)
ChildSegment(node, i) ==
    IF IsDict(node) THEN node.items[i][1] ELSE IntToStr(i - 1)

\* the i-th child: the value of the i-th item of a dict, the i-th list item
ChildNode(node, i) ==
    IF IsDict(node) THEN node.items[i][2] ELSE node.items[i]

\* trail + [segment]: a new list, the caller's trail is untouched
ChildTrail(trail, segment) == Append(trail, segment)

\* number of iterations of the for loop of lines 22 / 26 (none for a leaf)
NumChildren(node) == IF IsDict(node) \/ IsList(node) THEN Len(node.items) ELSE 0

\* ------------------------------------------------------------------------
\* The documents and files a run is checked on
\* ------------------------------------------------------------------------

\* {"Columns":[{"Name":"id"}]}
DocA == Obj(<< <<"Columns", Lst(<< Obj(<< <<"Name", Str("id")>> >>) >>)>> >>)

\* {"Widgets":[{"Name":"id"}]}
DocB == Obj(<< <<"Widgets", Lst(<< Obj(<< <<"Name", Str("id")>> >>) >>)>> >>)

\* {"Parameters":{"p1":{"Name":"x","Type":"int"}}}
DocC ==
    Obj(<< <<"Parameters",
             Obj(<< <<"p1", Obj(<< <<"Name", Str("x")>>, <<"Type", Str("int")>> >>)>> >>)>> >>)

\* {"Columns":{"a":{"b":[{"Name":7}]}},
\*  "Parameters":[{"Name":true},{"Name":null}],
\*  "columns":{"Name":"lc"}}
DocMixed ==
    Obj(<< <<"Columns",
             Obj(<< <<"a", Obj(<< <<"b", Lst(<< Obj(<< <<"Name", Num(7)>> >>) >>)>> >>)>> >>)>>,
           <<"Parameters",
             Lst(<< Obj(<< <<"Name", Bool(TRUE)>> >>), Obj(<< <<"Name", Null>> >>) >>)>>,
           <<"columns", Obj(<< <<"Name", Str("lc")>> >>)>> >>)

\* {"Columns":{"a":{"Name":"b/c"},"a/b":{"Name":"c"},"n":{"Name":{"Name":"in"}}}}
DocDup ==
    Obj(<< <<"Columns",
             Obj(<< <<"a", Obj(<< <<"Name", Str("b/c")>> >>)>>,
                    <<"a/b", Obj(<< <<"Name", Str("c")>> >>)>>,
                    <<"n", Obj(<< <<"Name", Obj(<< <<"Name", Str("in")>> >>)>> >>)>> >>)>> >>)

\* {"Name":{"Columns":{"Name":"z"}}}
DocRoot ==
    Obj(<< <<"Name", Obj(<< <<"Columns", Obj(<< <<"Name", Str("z")>> >>)>> >>)>> >>)

\* [{"Name":"x"}, "Columns", {"Columns":[{"Type":"int","Name":"y"}, -12]}, []]
DocList ==
    Lst(<< Obj(<< <<"Name", Str("x")>> >>),
           Str("Columns"),
           Obj(<< <<"Columns",
                    Lst(<< Obj(<< <<"Type", Str("int")>>, <<"Name", Str("y")>> >>),
                           Num(0 - 12) >>)>> >>),
           Lst(<< >>) >>)

Docs == << DocA, DocB, DocC, DocMixed, DocDup, DocRoot, DocList >>

\* content = 0: json.load raises on the file; otherwise the index in Docs of
\* the value json.load returns.  parts is the path relative to BASE_DIR.
DecodeFails == 0

FileA == [parts |-> <<"a.json">>, content |-> 1]

FileB == [parts |-> <<"b.json">>, content |-> 2]

FileC == [parts |-> <<"c.json">>, content |-> 3]

FileMixed == [parts |-> <<"sub", "mixed.json">>, content |-> 4]

FileDup == [parts |-> <<"dup.json">>, content |-> 5]

FileRoot == [parts |-> <<"root.json">>, content |-> 6]

FileList == [parts |-> <<"list.json">>, content |-> 7]

FileBad == [parts |-> <<"bad.json">>, content |-> DecodeFails]

FileIndex == [parts |-> <<"index.json">>, content |-> 1]

FileSubIndex == [parts |-> <<"sub", "index.json">>, content |-> 4]

FileMyIndex == [parts |-> <<"myindex.json">>, content |-> 1]

FileSet ==
    { FileA, FileB, FileC, FileMixed, FileDup, FileRoot, FileList, FileBad,
      FileIndex, FileSubIndex, FileMyIndex }

\* the enumerations rglob can yield: distinct files, in any order
Enumerations ==
    UNION { { f \in [1..n -> FileSet] : \A i, j \in 1..n : i # j => f[i] # f[j] }
            : n \in 0..MaxFiles }

\* ------------------------------------------------------------------------
\* pathlib
\* ------------------------------------------------------------------------

\* BASE_DIR = Path('debug/.xtraq')
BASE_DIR == <<"debug", ".xtraq">>

\* file.name: the last path component
FileName(file) == file.parts[Len(file.parts)]

\* an exclusion that compares the path below BASE_DIR, not the file name
IsIndexPath(file) == file.parts = <<"index.json">>

\* file.name == 'index.json'
IsIndexFile(file) == FileName(file) = "index.json"

\* str(file) as a sequence of components and separators, with the host's
\* separator between the components
PathTokens(file, s) ==
    LET comps == BASE_DIR \o file.parts
    IN  [i \in 1..(2 * Len(comps) - 1) |-> IF i % 2 = 1 THEN comps[(i + 1) \div 2] ELSE s]

\* .replace('\\', '/')
ReplaceBackslash(tokens) ==
    [i \in 1..Len(tokens) |-> IF tokens[i] = "\\" THEN "/" ELSE tokens[i]]

\* str(file).replace('\\', '/')
PathId(file, s) == Join(ReplaceBackslash(PathTokens(file, s)), "")

\* json.load(handle) succeeds
Decodes(file) == file.content # DecodeFails

\* the value json.load returns
Data(file) == Docs[file.content]

\* ------------------------------------------------------------------------
\* State
\* ------------------------------------------------------------------------

VARIABLES
    baseExists, \* BASE_DIR.exists()
    files,      \* what BASE_DIR.rglob('*.json') yields, in discovery order
    sep,        \* the host's path separator
    pc,         \* "start", "loop", "visit", "report", "done", "crashed"
    fileIdx,    \* number of files the for loop of line 31 has taken
    stack,      \* the active calls of visit, innermost last
    results,    \* the module-level list results
    printIdx,   \* number of entries the for loop of line 41 has taken
    output,     \* the lines printed to stdout
    visited,    \* history: the calls of visit made for the current file
    origin,     \* history: for each entry of results, the call that added it
    scanned     \* history: the files passed to visit

vars ==
    << baseExists, files, sep, pc, fileIdx, stack, results, printIdx, output,
       visited, origin, scanned >>

\* one call of visit(node, trail, path): its arguments, the number of
\* children its for loop has taken, whether lines 15-21 have run, and (history)
\* the position of node in the document as child ordinals from the root
Frame(node, trail, pos) ==
    [node |-> node, trail |-> trail, pos |-> pos, i |-> 0, entered |-> FALSE]

Top == stack[Len(stack)]

Pop == SubSeq(stack, 1, Len(stack) - 1)

\* the file the scan loop is working on
CurFile == files[fileIdx]

Init ==
    /\ baseExists \in BOOLEAN
    /\ files \in Enumerations
    /\ baseExists = FALSE => files = << >>
    /\ sep \in {"/", "\\"}
    /\ pc = "start"
    /\ fileIdx = 0
    /\ stack = << >>
    /\ results = << >>
    /\ printIdx = 0
    /\ output = << >>
    /\ visited = << >>
    /\ origin = << >>
    /\ scanned = << >>

\* ------------------------------------------------------------------------
\* The scan loop (lines 30-39)
\* ------------------------------------------------------------------------

\* line 30: if BASE_DIR.exists()
Start ==
    /\ pc = "start"
    /\ pc' = IF baseExists THEN "loop" ELSE "report"
    /\ UNCHANGED << baseExists, files, sep, fileIdx, stack, results, printIdx,
                    output, visited, origin, scanned >>

\* the decode error is not caught and ends the run
DecodeErrorPropagates == "crashed"

\* where control goes when json.load raises: except Exception: continue
AfterDecodeError == "loop"

\* lines 31-39: the loop takes the next file; index.json and files that do
\* not decode are skipped, any other file starts visit(data, [], path)
NextFile ==
    /\ pc = "loop"
    /\ fileIdx < Len(files)
    /\ fileIdx' = fileIdx + 1
    /\ LET file == files[fileIdx + 1]
       IN  IF IsIndexFile(file)
           THEN /\ pc' = "loop"
                /\ UNCHANGED << stack, visited, scanned >>
           ELSE IF ~Decodes(file)
           THEN /\ pc' = AfterDecodeError
                /\ UNCHANGED << stack, visited, scanned >>
           ELSE /\ pc' = "visit"
                /\ stack' = << Frame(Data(file), << >>, << >>) >>
                /\ visited' = << >>
                /\ scanned' = Append(scanned, fileIdx + 1)
    /\ UNCHANGED << baseExists, files, sep, results, printIdx, output, origin >>

\* the for loop of line 31 is exhausted
EndLoop ==
    /\ pc = "loop"
    /\ fileIdx = Len(files)
    /\ pc' = "report"
    /\ UNCHANGED << baseExists, files, sep, fileIdx, stack, results, printIdx,
                    output, visited, origin, scanned >>

\* ------------------------------------------------------------------------
\* visit (lines 14-27)
\* ------------------------------------------------------------------------

\* a visit that prints each match as soon as it is found
VisitEnterStreaming ==
    /\ pc = "visit"
    /\ ~Top.entered
    /\ stack' = [stack EXCEPT ![Len(stack)].entered = TRUE]
    /\ visited' = Append(visited, [pos |-> Top.pos, trail |-> Top.trail])
    /\ IF Matches(Top.node, Top.trail)
       THEN /\ results' = Append(results,
                                 << PathId(CurFile, sep), JoinedTrail(Top.node, Top.trail) >>)
            /\ origin' = Append(origin, << fileIdx, Top.pos >>)
            /\ output' = Append(output,
                                PathId(CurFile, sep) \o ": " \o JoinedTrail(Top.node, Top.trail))
       ELSE UNCHANGED << results, origin, output >>
    /\ UNCHANGED << baseExists, files, sep, pc, fileIdx, printIdx, scanned >>

\* lines 15-21: the call looks at its node and appends a match if it is one
VisitEnter ==
    /\ pc = "visit"
    /\ ~Top.entered
    /\ stack' = [stack EXCEPT ![Len(stack)].entered = TRUE]
    /\ visited' = Append(visited, [pos |-> Top.pos, trail |-> Top.trail])
    /\ IF Matches(Top.node, Top.trail)
       THEN /\ results' = Append(results,
                                 << PathId(CurFile, sep), JoinedTrail(Top.node, Top.trail) >>)
            /\ origin' = Append(origin, << fileIdx, Top.pos >>)
       ELSE UNCHANGED << results, origin >>
    /\ UNCHANGED << baseExists, files, sep, pc, fileIdx, printIdx, output, scanned >>

\* lines 22-23, 26-27: one iteration of the for loop, calling visit on the
\* next child with trail + [str(key)] or trail + [str(idx)]
VisitDescend ==
    /\ pc = "visit"
    /\ Top.entered
    /\ Top.i < NumChildren(Top.node)
    /\ LET k == Top.i + 1
       IN  stack' =
             Append([stack EXCEPT ![Len(stack)].i = k],
                    Frame(ChildNode(Top.node, k),
                          ChildTrail(Top.trail, ChildSegment(Top.node, k)),
                          Append(Top.pos, k)))
    /\ UNCHANGED << baseExists, files, sep, pc, fileIdx, results, printIdx, output,
                    visited, origin, scanned >>

\* the call returns: its node is a leaf or its for loop is exhausted; when
\* the outermost call returns, control is back in the scan loop
VisitReturn ==
    /\ pc = "visit"
    /\ Top.entered
    /\ Top.i = NumChildren(Top.node)
    /\ stack' = Pop
    /\ pc' = IF Len(stack) = 1 THEN "loop" ELSE "visit"
    /\ UNCHANGED << baseExists, files, sep, fileIdx, results, printIdx, output,
                    visited, origin, scanned >>

\* ------------------------------------------------------------------------
\* The report (lines 41-44)
\* ------------------------------------------------------------------------

\* f"{path}: {location}"
MatchLine(entry) == entry[1] \o ": " \o entry[2]

\* a report line that counts the distinct entries: len(set(results))
TotalLineDistinct(res) ==
    "Total: " \o IntToStr(Cardinality({ res[k] : k \in 1..Len(res) }))

\* f"Total: {len(results)}"
TotalLine(res) == "Total: " \o IntToStr(Len(res))

\* lines 41-42: one iteration of the for loop over results
PrintLine ==
    /\ pc = "report"
    /\ printIdx < Len(results)
    /\ printIdx' = printIdx + 1
    /\ output' = Append(output, MatchLine(results[printIdx + 1]))
    /\ UNCHANGED << baseExists, files, sep, pc, fileIdx, stack, results, visited,
                    origin, scanned >>

\* line 44, after the loop of line 41 is exhausted
PrintTotal ==
    /\ pc = "report"
    /\ printIdx = Len(results)
    /\ output' = Append(output, TotalLine(results))
    /\ pc' = "done"
    /\ UNCHANGED << baseExists, files, sep, fileIdx, stack, results, printIdx,
                    visited, origin, scanned >>

Next ==
    \/ Start
    \/ NextFile
    \/ EndLoop
    \/ VisitEnter
    \/ VisitDescend
    \/ VisitReturn
    \/ PrintLine
    \/ PrintTotal

Spec == Init /\ [][Next]_vars

\* the interpreter runs the program to its end: a step that can be taken is
\* taken
FairSpec == Spec /\ WF_vars(Next)

\* ------------------------------------------------------------------------
\* The document tree, described without reference to visit
\* ------------------------------------------------------------------------

\* the children of a node, in parse / index order
Kids(node) ==
    IF node.kind = "obj" THEN [k \in 1..Len(node.items) |-> node.items[k][2]]
    ELSE IF node.kind = "list" THEN node.items
    ELSE << >>

\* the key or stringified index under which the k-th child hangs
KidLabel(node, k) ==
    IF node.kind = "obj" THEN node.items[k][1] ELSE IntToStr(k - 1)

RECURSIVE NodeAt(_, _)
\* the node at a position (child ordinals from the root)
NodeAt(root, pos) ==
    IF pos = << >> THEN root ELSE NodeAt(Kids(root)[Head(pos)], Tail(pos))

RECURSIVE TrailOf(_, _)
\* the root-to-node sequence of keys and stringified indices
TrailOf(root, pos) ==
    IF pos = << >> THEN << >>
    ELSE << KidLabel(root, Head(pos)) >> \o TrailOf(Kids(root)[Head(pos)], Tail(pos))

RECURSIVE Positions(_)
\* the positions of all nodes of a tree
Positions(root) ==
    { << >> } \cup
    UNION { { << k >> \o p : p \in Positions(Kids(root)[k]) } : k \in 1..Len(Kids(root)) }

\* p comes before q in depth-first pre-order: p is a proper ancestor of q,
\* or p branches off to an earlier child
PreOrderBefore(p, q) ==
    \/ Len(p) < Len(q) /\ SubSeq(q, 1, Len(p)) = p
    \/ \E d \in 1..Len(p) :
          /\ d <= Len(q)
          /\ SubSeq(p, 1, d - 1) = SubSeq(q, 1, d - 1)
          /\ p[d] < q[d]

HasSegment(trail, name) == \E i \in 1..Len(trail) : trail[i] = name

UnderAnchor(trail) == HasSegment(trail, "Columns") \/ HasSegment(trail, "Parameters")

\* an object whose one key is Name
NameOnly(node) ==
    node.kind = "obj" /\ Len(node.items) = 1 /\ node.items[1][1] = "Name"

\* an object with a Name key and at least one other key
NameAndMore(node) ==
    /\ node.kind = "obj"
    /\ Len(node.items) >= 2
    /\ \E k \in 1..Len(node.items) : node.items[k][1] = "Name"

\* the text of a scalar: str(value)
ScalarText(leaf) ==
    CASE leaf.kind = "str" -> leaf.sval
      [] leaf.kind = "num" -> IntToStr(leaf.ival)
      [] leaf.kind = "bool" -> (IF leaf.bval THEN "True" ELSE "False")
      [] leaf.kind = "null" -> "None"

IsPrefix(s, t) == Len(s) <= Len(t) /\ SubSeq(t, 1, Len(s)) = s

\* ------------------------------------------------------------------------
\* History of the run
\* ------------------------------------------------------------------------

\* the file visit was last called for, and its document
LastScanned == scanned[Len(scanned)]

VisitedDoc == Data(files[LastScanned])

\* visit has been called for some file
AnyScanned == scanned # << >>

\* the call of visit for the node at pos of the last scanned file has run
\* lines 15-21, or the whole scan of that file is over
NodeDone(pos) ==
    \/ pc # "visit"
    \/ \E v \in 1..Len(visited) : visited[v].pos = pos

\* the entries of results added by the visit of the node at pos of file f
MatchesFor(f, pos) == { k \in 1..Len(origin) : origin[k] = << f, pos >> }

\* the entries of results added while scanning file f
MatchesOfFile(f) == { k \in 1..Len(origin) : origin[k][1] = f }

\* the scan of file f is over
FileDone(f) == f < fileIdx \/ (f = fileIdx /\ pc # "visit")

TypeOK ==
    /\ pc \in {"start", "loop", "visit", "report", "done"}
    /\ fileIdx \in 0..Len(files)
    /\ Len(origin) = Len(results)
    /\ printIdx \in 0..Len(results)
    /\ (pc = "visit") = (stack # << >>)

\* ------------------------------------------------------------------------
\* Properties
\* ------------------------------------------------------------------------

\* the Name value of a Name-only object
NameValue(node) == node.items[1][2]

\* the node at pos is a Name-only object with a string, number or boolean
\* Name, below a Columns or Parameters segment at any depth
ScalarNameUnderAnchor(doc, pos) ==
    /\ NameOnly(NodeAt(doc, pos))
    /\ NameValue(NodeAt(doc, pos)).kind \in {"str", "num", "bool"}
    /\ UnderAnchor(TrailOf(doc, pos))

\* C1: every Name-only object with a string, number or boolean Name whose
\* ancestor trail holds Columns or Parameters at any depth gets exactly one
\* entry of results from its visit, and the entry's trail string is the
\* ancestor trail followed by str(Name), joined with '/'.
C1_ScalarNameMatchesOnce ==
    AnyScanned =>
      \A pos \in Positions(VisitedDoc) :
         (NodeDone(pos) /\ ScalarNameUnderAnchor(VisitedDoc, pos)) =>
            /\ Cardinality(MatchesFor(LastScanned, pos)) = 1
            /\ \A k \in MatchesFor(LastScanned, pos) :
                  results[k][2] =
                    Join(TrailOf(VisitedDoc, pos)
                           \o << ScalarText(NameValue(NodeAt(VisitedDoc, pos))) >>, "/")

\* C1 witness: a match was added for a scalar Name-only object that sits
\* three or more levels below Columns, whose parent key is no anchor
C1_Witness ==
    /\ AnyScanned
    /\ \E pos \in Positions(VisitedDoc) :
          /\ ScalarNameUnderAnchor(VisitedDoc, pos)
          /\ Len(pos) >= 4
          /\ TrailOf(VisitedDoc, pos)[1] = "Columns"
          /\ ~UnderAnchor(Tail(TrailOf(VisitedDoc, pos)))
          /\ MatchesFor(LastScanned, pos) # { }

\* the files whose content is {"Columns":[{"Name":"id"}]} and whose scan is
\* over
ScenarioAFiles ==
    { f \in 1..Len(files) :
        /\ \E j \in 1..Len(scanned) : scanned[j] = f
        /\ files[f].content = 1
        /\ FileDone(f) }

\* C2 as stated: scanning {"Columns":[{"Name":"id"}]} gives exactly one
\* match, with trail string Columns/0/Name/id.
C2_AsStated ==
    \A f \in ScenarioAFiles :
       /\ Cardinality(MatchesOfFile(f)) = 1
       /\ \A k \in MatchesOfFile(f) : results[k][2] = "Columns/0/Name/id"

\* C2 amended: scanning {"Columns":[{"Name":"id"}]} gives exactly one
\* match, with trail string Columns/0/id (the key Name is not a segment).
C2_TrailOmitsNameKey ==
    \A f \in ScenarioAFiles :
       /\ Cardinality(MatchesOfFile(f)) = 1
       /\ \A k \in MatchesOfFile(f) : results[k][2] = "Columns/0/id"

\* C2 witness: the scan of a file holding the document is over
C2_Witness == ScenarioAFiles # { }

\* the node at pos is a Name-only object whose Name is null, below Columns
\* or Parameters
NullNameUnderAnchor(doc, pos) ==
    /\ NameOnly(NodeAt(doc, pos))
    /\ NameValue(NodeAt(doc, pos)).kind = "null"
    /\ UnderAnchor(TrailOf(doc, pos))

\* C3: a Name-only object whose Name is null, below Columns or Parameters,
\* gets one match whose trail ends with the string form of null.
C3_NullNameMatches ==
    AnyScanned =>
      \A pos \in Positions(VisitedDoc) :
         (NodeDone(pos) /\ NullNameUnderAnchor(VisitedDoc, pos)) =>
            /\ Cardinality(MatchesFor(LastScanned, pos)) = 1
            /\ \A k \in MatchesFor(LastScanned, pos) :
                  results[k][2] = Join(TrailOf(VisitedDoc, pos) \o << "None" >>, "/")

\* C4: a Name-only object whose ancestor trail holds neither Columns nor
\* Parameters (the document root included) gets no entry of results.
C4_NoAnchorNoMatch ==
    AnyScanned =>
      \A pos \in Positions(VisitedDoc) :
         (NameOnly(NodeAt(VisitedDoc, pos)) /\ ~UnderAnchor(TrailOf(VisitedDoc, pos))) =>
            MatchesFor(LastScanned, pos) = { }

\* C4 witness: the scan of a file is over that holds a Name-only object
\* below a key that differs from an anchor by case only
C4_Witness ==
    /\ AnyScanned
    /\ pc # "visit"
    /\ \E pos \in Positions(VisitedDoc) :
          /\ NameOnly(NodeAt(VisitedDoc, pos))
          /\ ~UnderAnchor(TrailOf(VisitedDoc, pos))
          /\ HasSegment(TrailOf(VisitedDoc, pos), "columns")

\* C5: an object with a Name key and one or more other keys gets no entry
\* of results, whatever its ancestor trail holds.
C5_ExtraKeysNoMatch ==
    AnyScanned =>
      \A pos \in Positions(VisitedDoc) :
         NameAndMore(NodeAt(VisitedDoc, pos)) => MatchesFor(LastScanned, pos) = { }

\* C5 witness: the scan of a file is over that holds, below an anchor, an
\* object with Name and another key
C5_Witness ==
    /\ AnyScanned
    /\ pc # "visit"
    /\ \E pos \in Positions(VisitedDoc) :
          /\ NameAndMore(NodeAt(VisitedDoc, pos))
          /\ UnderAnchor(TrailOf(VisitedDoc, pos))

\* the indices of the files visit was called for
ScannedSet == { scanned[j] : j \in 1..Len(scanned) }

\* the report line of an entry of results: "<file_id>: <trail>"
LineOf(entry) == entry[1] \o ": " \o entry[2]

\* the scan loop is about to take a file that does not decode
AtUndecodable ==
    /\ pc = "loop"
    /\ fileIdx < Len(files)
    /\ ~Decodes(files[fileIdx + 1])

C6_Inv ==
    /\ pc # "crashed"
    /\ \A k \in 1..Len(origin) : Decodes(files[origin[k][1]])
    /\ \A f \in 1..Len(files) : ~Decodes(files[f]) => f \notin ScannedSet
    /\ pc \in {"report", "done"} =>
          \A f \in 1..Len(files) :
             (Decodes(files[f]) /\ FileName(files[f]) # "index.json") => f \in ScannedSet
    /\ (pc = "done" /\ files \in { << FileBad, FileA >>, << FileA, FileBad >> }) =>
          /\ Len(results) = 1
          /\ Len(output) = 2
          /\ output[2] = "Total: 1"

C6_SkipStep ==
    AtUndecodable =>
       /\ results' = results
       /\ output' = output
       /\ pc' = "loop"
       /\ fileIdx' = fileIdx + 1

\* C6: a file that fails to decode adds no match, leads to no error state,
\* leaves the matches of earlier files as they are, and the loop goes on to
\* the remaining files; one undecodable file and one valid file holding one
\* match end with one match and Total: 1.
C6_DecodeFailureSkipped == [](C6_Inv) /\ [][C6_SkipStep]_vars

\* C6 witness: a run over an undecodable file and a valid one has ended
\* with one match and Total: 1
C6_Witness ==
    /\ pc = "done"
    /\ Len(files) = 2
    /\ \E f \in 1..2 : ~Decodes(files[f])
    /\ Len(results) = 1
    /\ output[Len(output)] = "Total: 1"

\* C7: a file named index.json is never passed to visit and has no entry in
\* results; every other enumerated file that decodes is passed to visit.
C7_IndexNeverScanned ==
    /\ \A f \in ScannedSet : FileName(files[f]) # "index.json"
    /\ \A k \in 1..Len(origin) : FileName(files[origin[k][1]]) # "index.json"
    /\ \A f \in 1..fileIdx :
          (FileName(files[f]) # "index.json" /\ Decodes(files[f])) => f \in ScannedSet
    /\ (pc \in {"report", "done"} /\ baseExists) => fileIdx = Len(files)

\* C7 witness: a run has ended that met an index.json in a subdirectory,
\* holding matching shapes, and one other file that was scanned
C7_Witness ==
    /\ pc = "done"
    /\ Len(files) = 2
    /\ Len(scanned) = 1
    /\ \E f \in 1..2 :
          /\ files[f].parts = << "sub", "index.json" >>
          /\ \E pos \in Positions(Data(files[f])) : ScalarNameUnderAnchor(Data(files[f]), pos)

\* the node at pos is a Name-only object with a Name other than null, below
\* Columns or Parameters
NonNullNameUnderAnchor(doc, pos) ==
    /\ NameOnly(NodeAt(doc, pos))
    /\ NameValue(NodeAt(doc, pos)).kind # "null"
    /\ UnderAnchor(TrailOf(doc, pos))

C8_Inv ==
    \* file-discovery order, then depth-first pre-order within a file
    /\ \A k, l \in 1..Len(origin) :
          k < l =>
             \/ origin[k][1] < origin[l][1]
             \/ /\ origin[k][1] = origin[l][1]
                /\ PreOrderBefore(origin[k][2], origin[l][2])
    /\ \A k \in 1..Len(origin) :
          results[k][1] = Join(BASE_DIR \o files[origin[k][1]].parts, "/")
    \* no deduplication: every matching node has an entry of its own
    /\ AnyScanned =>
          \A pos \in Positions(VisitedDoc) :
             (NodeDone(pos) /\ NonNullNameUnderAnchor(VisitedDoc, pos)) =>
                Cardinality(MatchesFor(LastScanned, pos)) = 1
    \* the report: one line per entry, in order, then the count of the lines
    /\ pc \in {"report", "done"} =>
          \A k \in 1..Len(output) : k <= Len(results) => output[k] = LineOf(results[k])
    /\ pc = "done" =>
          /\ Len(output) = Len(results) + 1
          /\ output[Len(output)] = "Total: " \o IntToStr(Len(output) - 1)

\* C8: results only grows by appending; it lists the matches in
\* file-discovery order and, within a file, in depth-first pre-order, with
\* no deduplication of equal (file, trail) pairs; the report prints one line
\* per entry in that order and then Total: <number of lines printed>.
C8_AppendOnlyOrdered == [](C8_Inv) /\ [][IsPrefix(results, results')]_vars

\* C8 witness: a run has ended whose results hold two equal entries and
\* entries of two files
C8_Witness ==
    /\ pc = "done"
    /\ \E k, l \in 1..Len(results) : k < l /\ results[k] = results[l]
    /\ \E k, l \in 1..Len(origin) : origin[k][1] # origin[l][1]

\* C9 as stated: when the scan of a file begins, the match lines of the
\* files scanned before it have been printed.
C9_AsStated ==
    pc = "visit" =>
       \A k \in 1..Len(origin) :
          origin[k][1] < fileIdx => (k <= Len(output) /\ output[k] = LineOf(results[k]))

\* C9 amended: nothing is printed before the scan of all files is over, so a
\* run interrupted while scanning has printed nothing; once the report has
\* begun, what is printed is a prefix of the report.
C9_ReportDeferred ==
    /\ pc \in {"start", "loop", "visit"} => output = << >>
    /\ pc \in {"report", "done"} =>
          /\ baseExists => fileIdx = Len(files)
          /\ \A k \in 1..Len(output) : k <= Len(results) => output[k] = LineOf(results[k])

\* C9 witness: the scan of a file is under way, an earlier file has given a
\* match, and nothing is printed
C9_Witness ==
    /\ pc = "visit"
    /\ \E k \in 1..Len(origin) : origin[k][1] < fileIdx
    /\ output = << >>

C10_Inv ==
    \* each active call holds the root-to-node trail of its node, and is a
    \* call for a child of its caller
    /\ \A d \in 1..Len(stack) :
          /\ stack[d].trail = TrailOf(VisitedDoc, stack[d].pos)
          /\ d < Len(stack) => stack[d + 1].pos = Append(stack[d].pos, stack[d].i)
    \* each call made so far was for a node of the tree, with its trail, and
    \* no node was visited twice
    /\ AnyScanned =>
          /\ \A v \in 1..Len(visited) :
                /\ visited[v].pos \in Positions(VisitedDoc)
                /\ visited[v].trail = TrailOf(VisitedDoc, visited[v].pos)
          /\ \A v, w \in 1..Len(visited) : v # w => visited[v].pos # visited[w].pos
    \* once the outermost call has returned, every node was visited
    /\ (AnyScanned /\ pc # "visit") =>
          { visited[v].pos : v \in 1..Len(visited) } = Positions(VisitedDoc)

\* a call still active after a step has the trail it had before the step
C10_TrailKept ==
    (pc = "visit" /\ pc' = "visit") =>
       \A d \in 1..Len(stack) : d <= Len(stack') => stack'[d].trail = stack[d].trail

\* C10: visit(root, [], path) terminates, visits every node of the tree
\* exactly once, each time with the root-to-node sequence of keys and
\* stringified indices as its trail, and a caller's trail is not changed by
\* a recursive call.
C10_VisitsEachNodeOnce ==
    /\ [](C10_Inv)
    /\ [][C10_TrailKept]_vars
    /\ ((pc = "visit") ~> (pc # "visit"))

\* C10 witness: the outermost call has returned from a tree in which a
\* subtree four levels deep was explored before a later sibling subtree
C10_Witness ==
    /\ AnyScanned
    /\ pc = "loop"
    /\ \E v, w \in 1..Len(visited) :
          /\ v < w
          /\ Len(visited[v].pos) >= 4
          /\ Len(visited[w].pos) >= 2
          /\ visited[w].pos[1] > visited[v].pos[1]

====
